---------------------------- MODULE Spec2Model ----------------------------
(***************************************************************************)
(* A model of r1.py: the interactive loop (main), the ingestion of files   *)
(* and directories into conversation_history, and the application of the   *)
(* model's file creations and edits to the filesystem.                     *)
(*                                                                         *)
(* Text is modelled as sequences of one-character strings, so that the     *)
(* string functions the code relies on (startswith, lower, splitext,       *)
(* replace) are computed and not assumed.  A path is the sequence of its   *)
(* segments; the working directory is the empty path.                      *)
(***************************************************************************)
EXTENDS Integers, Sequences, FiniteSets, TLC

VARIABLES
  conversation_history, \* r1.py:97, the list of {"role", "content"} entries
  fs,                   \* the filesystem: [dirs: path -> listing, files: path -> file]
  pc,                   \* where main is: prompt, walk, creates, confirm, edits, finished, crashed
  response_data,        \* the AssistantResponse of the current turn (r1.py:246)
  directory_path,       \* argument of add_directory_to_conversation
  walk_stack,           \* directories os.walk has still to yield, next one first
  root,                 \* the directory of the last os.walk iteration
  added_files,          \* r1.py:141
  skipped_files,        \* r1.py:140
  total_files_processed,\* r1.py:142
  confirm,              \* the answer to the confirmation prompt (r1.py:254)
  applied,              \* instructions of the current proposal taken so far
  io_log,               \* filesystem calls made by the command in progress
  console               \* what the command in progress has printed

vars == << conversation_history, fs, pc, response_data, directory_path, walk_stack,
           root, added_files, skipped_files, total_files_processed,
           confirm, applied, io_log, console >>

walkVars == << directory_path, walk_stack, root, added_files, skipped_files,
               total_files_processed >>

turnVars == << response_data, confirm, applied >>

------------------------------------------------------------------------------
(* Constants of the program *)

MAX_FILE_SIZE == 5000000

MAX_FILES_TO_PROCESS == 1000

EXCLUDED_FILES ==
  {
    <<".","D","S","_","S","t","o","r","e">>, <<"T","h","u","m","b","s",".","d","b">>,
    <<".","g","i","t","i","g","n","o","r","e">>,
    <<".","p","y","t","h","o","n","-","v","e","r","s","i","o","n">>,
    <<"u","v",".","l","o","c","k">>, <<".","u","v">>, <<"u","v","e","n","v">>,
    <<".","u","v","e","n","v">>, <<".","v","e","n","v">>, <<"v","e","n","v">>,
    <<"_","_","p","y","c","a","c","h","e","_","_">>,
    <<".","p","y","t","e","s","t","_","c","a","c","h","e">>,
    <<".","c","o","v","e","r","a","g","e">>, <<".","m","y","p","y","_","c","a","c","h","e">>,
    <<"n","o","d","e","_","m","o","d","u","l","e","s">>,
    <<"p","a","c","k","a","g","e","-","l","o","c","k",".","j","s","o","n">>,
    <<"y","a","r","n",".","l","o","c","k">>,
    <<"p","n","p","m","-","l","o","c","k",".","y","a","m","l">>, <<".","n","e","x","t">>,
    <<".","n","u","x","t">>, <<"d","i","s","t">>, <<"b","u","i","l","d">>,
    <<".","c","a","c","h","e">>, <<".","p","a","r","c","e","l","-","c","a","c","h","e">>,
    <<".","t","u","r","b","o">>, <<".","v","e","r","c","e","l">>, <<".","o","u","t","p","u","t">>,
    <<".","c","o","n","t","e","n","t","l","a","y","e","r">>, <<"o","u","t">>,
    <<"c","o","v","e","r","a","g","e">>, <<".","n","y","c","_","o","u","t","p","u","t">>,
    <<"s","t","o","r","y","b","o","o","k","-","s","t","a","t","i","c">>, <<".","e","n","v">>,
    <<".","e","n","v",".","l","o","c","a","l">>,
    <<".","e","n","v",".","d","e","v","e","l","o","p","m","e","n","t">>,
    <<".","e","n","v",".","p","r","o","d","u","c","t","i","o","n">>, <<".","g","i","t">>,
    <<".","s","v","n">>, <<".","h","g">>, <<"C","V","S">>
  }

EXCLUDED_EXTENSIONS ==
  {
    <<".","p","n","g">>, <<".","j","p","g">>, <<".","j","p","e","g">>, <<".","g","i","f">>,
    <<".","i","c","o">>, <<".","s","v","g">>, <<".","w","e","b","p">>, <<".","a","v","i","f">>,
    <<".","m","p","4">>, <<".","w","e","b","m">>, <<".","m","o","v">>, <<".","m","p","3">>,
    <<".","w","a","v">>, <<".","o","g","g">>, <<".","z","i","p">>, <<".","t","a","r">>,
    <<".","g","z">>, <<".","7","z">>, <<".","r","a","r">>, <<".","e","x","e">>, <<".","d","l","l">>,
    <<".","s","o">>, <<".","d","y","l","i","b">>, <<".","b","i","n">>, <<".","p","d","f">>,
    <<".","d","o","c">>, <<".","d","o","c","x">>, <<".","x","l","s">>, <<".","x","l","s","x">>,
    <<".","p","p","t">>, <<".","p","p","t","x">>, <<".","p","y","c">>, <<".","p","y","o">>,
    <<".","p","y","d">>, <<".","e","g","g">>, <<".","w","h","l">>, <<".","u","v">>,
    <<".","u","v","e","n","v">>, <<".","d","b">>, <<".","s","q","l","i","t","e">>,
    <<".","s","q","l","i","t","e","3">>, <<".","l","o","g">>, <<".","i","d","e","a">>,
    <<".","v","s","c","o","d","e">>, <<".","m","a","p">>, <<".","c","h","u","n","k",".","j","s">>,
    <<".","c","h","u","n","k",".","c","s","s">>, <<".","m","i","n",".","j","s">>,
    <<".","m","i","n",".","c","s","s">>, <<".","b","u","n","d","l","e",".","j","s">>,
    <<".","b","u","n","d","l","e",".","c","s","s">>, <<".","c","a","c","h","e">>,
    <<".","t","m","p">>, <<".","t","e","m","p">>, <<".","t","t","f">>, <<".","o","t","f">>,
    <<".","w","o","f","f">>, <<".","w","o","f","f","2">>, <<".","e","o","t">>
  }

SYSTEM_PROMPT == <<"S","Y","S">>

------------------------------------------------------------------------------
(* Bounds of the model *)

\* longest content of the file an edit is tried on
MaxLen == 3

\* longest original_snippet and new_snippet of such an edit
MaxSnippet == 2

\* entries the history may reach by a command typed at the prompt (a
\* directory walk, once started, appends whatever it accepts)
MaxHistory == 4

\* eligible files the large tree holds beyond MAX_FILES_TO_PROCESS
CeilExtra == 200

------------------------------------------------------------------------------
(* Text *)

NUL == "NUL"   \* the byte 0
BAD == "BAD"   \* a byte that is not valid UTF-8

UpperCase == <<"A","B","C","D","E","F","G","H","I","J","K","L","M",
               "N","O","P","Q","R","S","T","U","V","W","X","Y","Z">>

LowerCase == <<"a","b","c","d","e","f","g","h","i","j","k","l","m",
               "n","o","p","q","r","s","t","u","v","w","x","y","z">>

\* str.lower, one character
LowerChar(c) ==
  IF \E i \in 1..26 : UpperCase[i] = c
    THEN LowerCase[CHOOSE i \in 1..26 : UpperCase[i] = c]
    ELSE c

\* str.lower
lower(s) == [i \in 1..Len(s) |-> LowerChar(s[i])]

\* str.startswith
startswith(s, p) == Len(s) >= Len(p) /\ SubSeq(s, 1, Len(p)) = p

\* str.strip of a command line: blanks at both ends go
RECURSIVE lstrip(_)
lstrip(s) == IF s # <<>> /\ Head(s) = " " THEN lstrip(Tail(s)) ELSE s

RECURSIVE rstrip(_)
rstrip(s) == IF s # <<>> /\ s[Len(s)] = " " THEN rstrip(SubSeq(s, 1, Len(s) - 1)) ELSE s

strip(s) == rstrip(lstrip(s))

\* os.path.splitext(name)[1] of a name without separators: from the last dot
\* on, unless only dots come before it
DotPositions(name) == { i \in 1..Len(name) : name[i] = "." }

Max(S) == CHOOSE x \in S : \A y \in S : y <= x

splitext_ext(name) ==
  IF DotPositions(name) = {} THEN <<>>
  ELSE LET d == Max(DotPositions(name))
       IN IF \E i \in 1..(d - 1) : name[i] # "."
            THEN SubSeq(name, d, Len(name))
            ELSE <<>>

\* positions where snippet occurs in content (every position for the empty snippet)
Occurrences(content, snippet) ==
  { i \in 1..(Len(content) - Len(snippet) + 1) :
      SubSeq(content, i, i + Len(snippet) - 1) = snippet }

Min(S) == CHOOSE x \in S : \A y \in S : x <= y

\* a replace that takes the rightmost occurrence instead of the leftmost
replace_last(content, old, new) ==
  IF Occurrences(content, old) = {} THEN content
  ELSE LET i == Max(Occurrences(content, old))
       IN SubSeq(content, 1, i - 1) \o new
            \o SubSeq(content, i + Len(old), Len(content))

\* a replace that finds no occurrence of the empty string
replace_first_nonempty(content, old, new) ==
  IF old = <<>> \/ Occurrences(content, old) = {} THEN content
  ELSE LET i == Min(Occurrences(content, old))
       IN SubSeq(content, 1, i - 1) \o new
            \o SubSeq(content, i + Len(old), Len(content))

\* str.replace(old, new, 1): the leftmost occurrence replaced, the string
\* itself when there is none
replace_first(content, old, new) ==
  IF Occurrences(content, old) = {} THEN content
  ELSE LET i == Min(Occurrences(content, old))
       IN SubSeq(content, 1, i - 1) \o new
            \o SubSeq(content, i + Len(old), Len(content))

------------------------------------------------------------------------------
(* The filesystem *)

\* A file: the text it holds, the size os.path.getsize reports, and how the
\* operating system answers when it is opened:
\*   ok      it opens and reads
\*   noperm  open() raises PermissionError
\*   eio     it opens and its first block reads, a later read raises OSError
\*   ro      it opens for reading, open(.., "w") raises PermissionError
\*   broken  a dangling link: listed in its directory, stat and open raise
\*           FileNotFoundError
Perms == {"ok", "ro", "noperm", "eio", "broken"}

File(content, size, perm) == [content |-> content, size |-> size, perm |-> perm]

Listing(ds, fls) == [dirs |-> ds, files |-> fls]

\* pathlib's parent, os.path.join and the set of ancestors of a path
parent(p) == SubSeq(p, 1, Len(p) - 1)

join(d, name) == Append(d, name)

basename(p) == p[Len(p)]

Ancestors(p) == { SubSeq(p, 1, k) : k \in 0..(Len(p) - 1) }

isdir(f, p) == p \in DOMAIN f.dirs

isfile(f, p) == p \in DOMAIN f.files

\* Exceptions, by class
OSErrors == {"FileNotFoundError", "IsADirectoryError", "NotADirectoryError",
             "FileExistsError", "PermissionError", "OSError"}

ValueErrors == {"UnicodeDecodeError", "ValueError"}

\* what open(p, "r") or open(p, "rb") raises; "none" when it opens
OpenReadError(f, p) ==
  IF isdir(f, p) THEN "IsADirectoryError"
  ELSE IF \E a \in Ancestors(p) : isfile(f, a) THEN "NotADirectoryError"
  ELSE IF ~isfile(f, p) THEN "FileNotFoundError"
  ELSE IF f.files[p].perm = "broken" THEN "FileNotFoundError"
  ELSE IF f.files[p].perm = "noperm" THEN "PermissionError"
  ELSE "none"

\* read_local_file: what it raises, "none" when it returns the content
ReadError(f, p) ==
  IF OpenReadError(f, p) # "none" THEN OpenReadError(f, p)
  ELSE IF f.files[p].perm = "eio" THEN "OSError"
  ELSE IF \E i \in 1..Len(f.files[p].content) : f.files[p].content[i] = BAD
    THEN "UnicodeDecodeError"
  ELSE "none"

read_local_file(f, p) == f.files[p].content

\* os.path.getsize: what it raises, "none" when it returns the size
GetsizeError(f, p) ==
  IF isdir(f, p) THEN "none"
  ELSE IF ~isfile(f, p) \/ f.files[p].perm = "broken" THEN "FileNotFoundError"
  ELSE "none"

\* is_binary_file: a NUL among the first bytes, or any failure to open
is_binary_file(f, p) ==
  IF OpenReadError(f, p) # "none" THEN TRUE
  ELSE \E i \in 1..Len(f.files[p].content) : f.files[p].content[i] = NUL

\* Path.mkdir(parents=True, exist_ok=True) of directory d: what it raises
MkdirError(f, d) ==
  IF isfile(f, d) THEN "FileExistsError"
  ELSE IF \E a \in Ancestors(d) : isfile(f, a) THEN "NotADirectoryError"
  ELSE "none"

\* the directories of f after that mkdir: every missing ancestor is made and
\* listed in its own parent
MissingDirs(f, d) == { a \in (Ancestors(d) \cup {d}) : ~isdir(f, a) }

MkdirDirs(f, d) ==
  LET new == MissingDirs(f, d)
  IN [ p \in DOMAIN f.dirs \cup new |->
         LET old == IF p \in new THEN Listing(<<>>, <<>>) ELSE f.dirs[p]
             kid == { c \in new : c # <<>> /\ parent(c) = p }
         IN IF kid = {} THEN old
            ELSE Listing(Append(old.dirs, basename(CHOOSE c \in kid : TRUE)), old.files) ]

\* open(p, "w"): what it raises in filesystem f
OpenWriteError(f, p) ==
  IF isdir(f, p) THEN "IsADirectoryError"
  ELSE IF isfile(f, p) /\ f.files[p].perm \in {"noperm", "ro"} THEN "PermissionError"
  ELSE IF isfile(f, p) /\ f.files[p].perm = "broken" THEN "FileNotFoundError"
  ELSE "none"

\* a write that opens p for appending
WriteAppend(f, p, content) ==
  LET perm == IF isfile(f, p) THEN f.files[p].perm ELSE "ok"
      d == parent(p)
      all == IF isfile(f, p) THEN f.files[p].content \o content ELSE content
  IN [ dirs |-> IF isfile(f, p) THEN f.dirs
                ELSE [f.dirs EXCEPT ![d] = Listing(@.dirs, Append(@.files, basename(p)))],
       files |-> [ q \in DOMAIN f.files \cup {p} |->
                     IF q = p THEN File(all, Len(all), perm) ELSE f.files[q] ] ]

\* the filesystem after content is written to p (p's directory exists)
WriteFile(f, p, content) ==
  LET perm == IF isfile(f, p) THEN f.files[p].perm ELSE "ok"
      d == parent(p)
  IN [ dirs |-> IF isfile(f, p) THEN f.dirs
                ELSE [f.dirs EXCEPT ![d] = Listing(@.dirs, Append(@.files, basename(p)))],
       files |-> [ q \in DOMAIN f.files \cup {p} |->
                     IF q = p THEN File(content, Len(content), perm) ELSE f.files[q] ] ]

\* create_file(path, content): the exception it raises ("none" when it
\* returns), the filesystem it leaves, the calls it made and what it printed
create_file(f, path, content) ==
  LET merr == MkdirError(f, parent(path))
      f1 == IF merr = "none" THEN [f EXCEPT !.dirs = MkdirDirs(f, parent(path))] ELSE f
      werr == IF merr # "none" THEN merr ELSE OpenWriteError(f1, path)
  IN [ err |-> werr,
       fs |-> IF werr = "none" THEN WriteFile(f1, path, content) ELSE f1,
       log |-> IF merr # "none" THEN << <<"mkdir", parent(path)>> >>
               ELSE IF werr # "none" THEN << <<"mkdir", parent(path)>>, <<"open_w", path>> >>
               ELSE << <<"mkdir", parent(path)>>, <<"open_w", path>>, <<"write", path>> >>,
       out |-> IF werr = "none" THEN << <<"created", path>> >> ELSE <<>> ]

\* an edit that starts from an empty file when the target is missing
apply_diff_edit_creating(f, path, original_snippet, new_snippet) ==
  LET rerr == ReadError(f, path)
      rlog == << <<"read", path>> >>
  IN IF rerr # "none" /\ rerr # "FileNotFoundError"
       THEN [ err |-> IF rerr \in ValueErrors THEN "none" ELSE rerr,
              fs |-> f,
              log |-> rlog,
              out |-> IF rerr \in ValueErrors THEN << <<"no_changes_made", path>> >>
                      ELSE <<>> ]
       ELSE LET content == IF rerr = "none" THEN read_local_file(f, path) ELSE <<>>
                updated_content == replace_first(content, original_snippet, new_snippet)
                c == create_file(f, path, updated_content)
            IN [ err |-> IF c.err = "FileNotFoundError" THEN "none" ELSE c.err,
                 fs |-> c.fs,
                 log |-> rlog \o c.log,
                 out |-> IF c.err = "none" THEN c.out \o << <<"applied_diff_edit", path>> >>
                         ELSE IF c.err = "FileNotFoundError"
                           THEN << <<"file_not_found", path>> >>
                         ELSE <<>> ]

\* apply_diff_edit(path, original_snippet, new_snippet)
apply_diff_edit(f, path, original_snippet, new_snippet) ==
  LET rerr == ReadError(f, path)
      rlog == << <<"read", path>> >>
  IN IF rerr # "none"
       THEN [ err |-> IF rerr = "FileNotFoundError" \/ rerr \in ValueErrors
                        THEN "none" ELSE rerr,
              fs |-> f,
              log |-> rlog,
              out |-> IF rerr = "FileNotFoundError" THEN << <<"file_not_found", path>> >>
                      ELSE IF rerr \in ValueErrors THEN << <<"no_changes_made", path>> >>
                      ELSE <<>> ]
       ELSE LET content == read_local_file(f, path)
                updated_content == replace_first(content, original_snippet, new_snippet)
                c == create_file(f, path, updated_content)
            IN [ err |-> IF c.err = "FileNotFoundError" THEN "none" ELSE c.err,
                 fs |-> c.fs,
                 log |-> rlog \o c.log,
                 out |-> IF c.err = "none" THEN c.out \o << <<"applied_diff_edit", path>> >>
                         ELSE IF c.err = "FileNotFoundError"
                           THEN << <<"file_not_found", path>> >>
                         ELSE <<>> ]

------------------------------------------------------------------------------
(* The conversation *)

Entry(role, path, content) == [role |-> role, path |-> path, content |-> content]

\* an entry put right after the system prompt instead of at the end
InsertEntry(hist, e) == << Head(hist), e >> \o Tail(hist)

\* conversation_history.append (r1.py:129)
AppendEntry(hist, e) == Append(hist, e)

\* an entry of a file made with the user's role
FileEntryAsUser(file_path, content) == Entry("user", file_path, content)

\* the entry add_file_to_conversation builds: the path is the one named in
\* the "Content of file '...'" header, <<>> stands for an entry without header
FileEntry(file_path, content) == Entry("system", file_path, content)

\* add_file_to_conversation(file_path): OSError is caught and reported, any
\* other exception of read_local_file leaves the function
add_file_to_conversation(f, hist, file_path) ==
  LET rerr == ReadError(f, file_path)
  IN [ err |-> IF rerr \in OSErrors THEN "none" ELSE rerr,
       hist |-> IF rerr = "none"
                  THEN AppendEntry(hist, FileEntry(file_path, read_local_file(f, file_path)))
                  ELSE hist,
       log |-> << <<"read", file_path>> >>,
       out |-> IF rerr = "none" THEN << <<"added_file", file_path>> >>
               ELSE IF rerr \in OSErrors THEN << <<"could_not_add_file", file_path>> >>
               ELSE <<>> ]

\* Path(path_str).resolve(): "." and ".." are worked out against the working
\* directory, which is the empty path
RECURSIVE resolve_from(_, _)
resolve_from(done, rest) ==
  IF rest = <<>> THEN done
  ELSE IF Head(rest) = <<".">> THEN resolve_from(done, Tail(rest))
  ELSE IF Head(rest) = <<".", ".">>
    THEN resolve_from(IF done = <<>> THEN done ELSE parent(done), Tail(rest))
  ELSE resolve_from(Append(done, Head(rest)), Tail(rest))

resolve(path_str) == resolve_from(<<>>, path_str)

\* normalize_path: what it raises, "none" when it returns resolve(path_str)
NormalizeError(path_str) ==
  IF \E i \in 1..Len(resolve(path_str)) : resolve(path_str)[i] = <<".", ".">>
    THEN "ValueError" ELSE "none"

normalize_path(path_str) == resolve(path_str)

------------------------------------------------------------------------------
(* A line typed at the prompt: its text up to the path argument, and the   *)
(* path argument as segments (<<>> when the line has none).                *)

Line(text, path) == [text |-> text, path |-> path]

ADD == <<"/","a","d","d"," ">>

\* user_input of r1.py:221: the line stripped
Stripped(line) == IF line.path = <<>> THEN strip(line.text) ELSE lstrip(line.text)

IsEmptyLine(line) == line.path = <<>> /\ Stripped(line) = <<>>

IsExitLine(line) ==
  /\ line.path = <<>>
  /\ lower(Stripped(line)) \in { <<"e","x","i","t">>, <<"q","u","i","t">> }

IsAddLine(line) ==
  /\ line.path # <<>>
  /\ startswith(lower(Stripped(line)), ADD)
  /\ strip(SubSeq(Stripped(line), Len(ADD) + 1, Len(Stripped(line)))) = <<>>

IsChatLine(line) == ~IsEmptyLine(line) /\ ~IsExitLine(line) /\ ~IsAddLine(line)

\* the text of a chat line as it enters the history
ChatText(line) == Stripped(line)

------------------------------------------------------------------------------
(* The proposal of a turn *)

FileToCreate(path, content) == [path |-> path, content |-> content]

FileToEdit(path, original_snippet, new_snippet) ==
  [path |-> path, original_snippet |-> original_snippet, new_snippet |-> new_snippet]

AssistantResponse(reply, creates, edits) ==
  [assistant_reply |-> reply, files_to_create |-> creates, files_to_edit |-> edits]

NoResponse == AssistantResponse(<<>>, <<>>, <<>>)

\* stream_openai_response(user_input): the user's turn enters the history,
\* the payload is validated against AssistantResponse; a valid payload is
\* returned and its reply enters the history, an invalid one (no
\* assistant_reply) is reported and a response without instructions returned
stream_openai_response(hist, user_input, payload) ==
  LET h1 == Append(hist, Entry("user", <<>>, user_input))
  IN IF payload.has_reply
       THEN [ hist |-> Append(h1, Entry("assistant", <<>>, payload.assistant_reply)),
              response |-> AssistantResponse(payload.assistant_reply,
                                             payload.files_to_create,
                                             payload.files_to_edit),
              out |-> << <<"assistant", <<>> >> >> ]
       ELSE [ hist |-> h1,
              response |-> AssistantResponse(<<"E","R","R">>, <<>>, <<>>),
              out |-> << <<"schema_error", <<>> >> >> ]

Payload(has_reply, reply, creates, edits) ==
  [has_reply |-> has_reply, assistant_reply |-> reply,
   files_to_create |-> creates, files_to_edit |-> edits]

------------------------------------------------------------------------------
(* add_directory_to_conversation, one directory of os.walk at a time *)

\* the locals of add_directory_to_conversation outside a call
WalkIdle ==
  /\ directory_path = <<>>
  /\ walk_stack = <<>>
  /\ root = <<>>
  /\ added_files = <<>>
  /\ skipped_files = <<>>
  /\ total_files_processed = 0

WalkReset ==
  /\ directory_path' = <<>>
  /\ walk_stack' = <<>>
  /\ root' = <<>>
  /\ added_files' = <<>>
  /\ skipped_files' = <<>>
  /\ total_files_processed' = 0

\* a pruning that looks at hidden names only
KeepDirHiddenOnly(d) == ~startswith(d, <<".">>)

\* r1.py:149
KeepDir(d) == ~startswith(d, <<".">>) /\ d \notin EXCLUDED_FILES

\* r1.py:155
ExcludedName(file) == startswith(file, <<".">>) \/ file \in EXCLUDED_FILES

\* r1.py:159-160
ExcludedExtension(file) == lower(splitext_ext(file)) \in EXCLUDED_EXTENSIONS

\* a size test that also turns away a file of exactly the ceiling
ReachesSizeLimit(size) == size >= MAX_FILE_SIZE

\* r1.py:166
ExceedsSizeLimit(size) == size > MAX_FILE_SIZE

\* a limit test that is off by one
LimitExceeded(n) == n > MAX_FILES_TO_PROCESS

\* r1.py:145 and r1.py:152
LimitReached(n) == n >= MAX_FILES_TO_PROCESS

Skipped(path, note) == [path |-> path, note |-> note]

\* what the loops of add_directory_to_conversation carry from one file to the
\* next: the history, the three locals, the calls made and the lines printed,
\* whether the inner loop was left by break, and the exception that left the
\* function ("none" while it runs)
WalkState(hist, added, skipped, total, log, out) ==
  [ hist |-> hist, added |-> added, skipped |-> skipped, total |-> total,
    log |-> log, out |-> out, brk |-> FALSE, err |-> "none" ]

\* one iteration of "for file in files" (r1.py:151-178)
walk_file(f, dir, w, file) ==
  LET full_path == join(dir, file)
      sized == << <<"getsize", full_path>> >>
      sniffed == sized \o << <<"open_rb", full_path>> >>
      a == add_file_to_conversation(f, w.hist, full_path)
  IN IF w.brk \/ w.err # "none" THEN w
     ELSE IF LimitReached(w.total) THEN [w EXCEPT !.brk = TRUE]
     ELSE IF ExcludedName(file) \/ ExcludedExtension(file)
       THEN [w EXCEPT !.skipped = Append(@, Skipped(full_path, ""))]
     ELSE IF GetsizeError(f, full_path) \in OSErrors
       THEN [w EXCEPT !.skipped = Append(@, Skipped(full_path, "")),
                      !.log = @ \o sized]
     ELSE IF ExceedsSizeLimit(f.files[full_path].size)
       THEN [w EXCEPT !.skipped = Append(@, Skipped(full_path, "exceeds size limit")),
                      !.log = @ \o sized]
     ELSE IF is_binary_file(f, full_path)
       THEN [w EXCEPT !.skipped = Append(@, Skipped(full_path, "")),
                      !.log = @ \o sniffed]
     ELSE IF a.err = "none"
       THEN [w EXCEPT !.hist = a.hist,
                      !.added = Append(@, full_path),
                      !.total = @ + 1,
                      !.log = @ \o sniffed \o a.log,
                      !.out = @ \o a.out]
     ELSE IF a.err \in OSErrors
       THEN [w EXCEPT !.skipped = Append(@, Skipped(full_path, "")),
                      !.log = @ \o sniffed \o a.log]
     ELSE [w EXCEPT !.err = a.err, !.log = @ \o sniffed \o a.log]

\* the inner loop over files[lo..hi], halved so that a long directory does
\* not nest deeply; after a break or a raise the rest of the files is not
\* visited
RECURSIVE walk_files(_, _, _, _, _, _)
walk_files(f, dir, w, files, lo, hi) ==
  IF lo > hi THEN w
  ELSE IF lo = hi THEN walk_file(f, dir, w, files[lo])
  ELSE LET mid == (lo + hi) \div 2
           left == walk_files(f, dir, w, files, lo, mid)
       IN IF left.brk \/ left.err # "none" THEN left
          ELSE walk_files(f, dir, left, files, mid + 1, hi)

\* one iteration of "for root, dirs, files in os.walk(directory_path)"
\* (r1.py:144-178): os.walk lists the next directory and yields it; the loop
\* stops at the limit, else prunes dirs in place and takes the files.  An
\* exception that leaves the function is caught by main at r1.py:241.
WalkDir ==
  /\ pc = "walk"
  /\ walk_stack # <<>>
  /\ LET d == Head(walk_stack)
         listing == fs.dirs[d]
         kept == SelectSeq(listing.dirs, KeepDir)
         w0 == WalkState(conversation_history, added_files, skipped_files,
                         total_files_processed, Append(io_log, <<"scandir", d>>), console)
         w == walk_files(fs, d, w0, listing.files, 1, Len(listing.files))
     IN IF LimitReached(total_files_processed)
          THEN /\ walk_stack' = <<>>
               /\ io_log' = w0.log
               /\ console' = Append(console, <<"reached_limit", directory_path>>)
               /\ UNCHANGED << conversation_history, pc, directory_path, root, added_files,
                               skipped_files, total_files_processed >>
        ELSE IF w.err = "none"
          THEN /\ walk_stack' = [i \in 1..Len(kept) |-> join(d, kept[i])]
                                  \o Tail(walk_stack)
               /\ root' = d
               /\ conversation_history' = w.hist
               /\ added_files' = w.added
               /\ skipped_files' = w.skipped
               /\ total_files_processed' = w.total
               /\ io_log' = w.log
               /\ console' = w.out
               /\ UNCHANGED << pc, directory_path >>
        ELSE /\ pc' = "prompt"
             /\ WalkReset
             /\ conversation_history' = w.hist
             /\ io_log' = w.log
             /\ console' = Append(w.out, <<"could_not_add_path", directory_path>>)
  /\ UNCHANGED << fs, turnVars >>

\* r1.py:180-189: the loops are over, the report is printed, the call returns
WalkReport ==
  /\ pc = "walk"
  /\ walk_stack = <<>>
  /\ console' = console \o << <<"added_folder", directory_path>>,
                              <<"added_files", added_files>>,
                              <<"skipped_files", skipped_files>> >>
  /\ pc' = "prompt"
  /\ WalkReset
  /\ UNCHANGED << conversation_history, fs, turnVars, io_log >>

------------------------------------------------------------------------------
(* main: the interactive loop *)

NextCreateIndex == Cardinality({ k \in DOMAIN applied : applied[k].kind = "create" }) + 1

NextEditIndex == Cardinality({ k \in DOMAIN applied : applied[k].kind = "edit" }) + 1

Applied(kind, i, err) == [kind |-> kind, i |-> i, err |-> err]

\* a confirmation that also takes "yes"
AffirmativeOrYes(answer) == lower(strip(answer)) \in { <<"y">>, <<"y","e","s">> }

\* r1.py:255
Affirmative(answer) == lower(strip(answer)) = <<"y">>

\* r1.py:222-224: end of input or an interrupt at the prompt
PromptEOF ==
  /\ pc = "prompt"
  /\ pc' = "finished"
  /\ console' = << <<"exiting", <<>> >> >>
  /\ io_log' = <<>>
  /\ UNCHANGED << conversation_history, fs, walkVars, turnVars >>

\* r1.py:226-227
EmptyInput(line) ==
  /\ pc = "prompt"
  /\ IsEmptyLine(line)
  /\ console' = <<>>
  /\ io_log' = <<>>
  /\ UNCHANGED << conversation_history, fs, pc, walkVars, turnVars >>

\* r1.py:229-231
ExitCommand(line) ==
  /\ pc = "prompt"
  /\ IsExitLine(line)
  /\ pc' = "finished"
  /\ console' = << <<"goodbye", <<>> >> >>
  /\ io_log' = <<>>
  /\ UNCHANGED << conversation_history, fs, walkVars, turnVars >>

\* r1.py:233-243
AddCommand(line) ==
  /\ pc = "prompt"
  /\ IsAddLine(line)
  /\ Len(conversation_history) + 1 <= MaxHistory
  /\ LET path_to_add == line.path
         normalized_path == normalize_path(path_to_add)
         a == add_file_to_conversation(fs, conversation_history, normalized_path)
     IN IF NormalizeError(path_to_add) # "none"
          THEN /\ console' = << <<"could_not_add_path", path_to_add>> >>
               /\ io_log' = <<>>
               /\ UNCHANGED << conversation_history, pc, walkVars >>
        ELSE IF isdir(fs, normalized_path)
          THEN /\ pc' = "walk"
               /\ directory_path' = normalized_path
               /\ walk_stack' = << normalized_path >>
               /\ root' = <<>>
               /\ added_files' = <<>>
               /\ skipped_files' = <<>>
               /\ total_files_processed' = 0
               /\ console' = <<>>
               /\ io_log' = << <<"isdir", normalized_path>> >>
               /\ UNCHANGED conversation_history
        ELSE /\ conversation_history' = a.hist
             /\ console' = IF a.err = "none" THEN a.out
                           ELSE << <<"could_not_add_path", path_to_add>> >>
             /\ io_log' = << <<"isdir", normalized_path>> >> \o a.log
             /\ UNCHANGED << pc, walkVars >>
  /\ UNCHANGED << fs, turnVars >>

\* where main goes once the creates of the response are done
AfterCreates(response) ==
  IF response.files_to_edit # <<>> THEN "confirm" ELSE "prompt"

\* a turn that takes the instructions from the payload as it arrived
TurnUnvalidated(line, payload) ==
  /\ pc = "prompt"
  /\ IsChatLine(line)
  /\ Len(conversation_history) + 2 <= MaxHistory
  /\ LET s == stream_openai_response(conversation_history, ChatText(line), payload)
         raw == AssistantResponse(s.response.assistant_reply,
                                  payload.files_to_create, payload.files_to_edit)
     IN /\ conversation_history' = s.hist
        /\ response_data' = raw
        /\ console' = s.out
        /\ pc' = IF raw.files_to_create # <<>> THEN "creates"
                 ELSE IF raw.files_to_edit # <<>> THEN "confirm" ELSE "prompt"
  /\ confirm' = <<>>
  /\ applied' = <<>>
  /\ io_log' = <<>>
  /\ UNCHANGED << fs, walkVars >>

\* r1.py:246-253: the turn's response arrives
Turn(line, payload) ==
  /\ pc = "prompt"
  /\ IsChatLine(line)
  /\ Len(conversation_history) + 2 <= MaxHistory
  /\ LET s == stream_openai_response(conversation_history, ChatText(line), payload)
     IN /\ conversation_history' = s.hist
        /\ response_data' = s.response
        /\ console' = s.out
        /\ pc' = IF s.response.files_to_create # <<>> THEN "creates"
                 ELSE AfterCreates(s.response)
  /\ confirm' = <<>>
  /\ applied' = <<>>
  /\ io_log' = <<>>
  /\ UNCHANGED << fs, walkVars >>

\* r1.py:249-250: one iteration of the loop over files_to_create; an
\* exception of create_file is caught nowhere and ends main
ApplyCreate ==
  /\ pc = "creates"
  /\ LET i == NextCreateIndex
         file_info == response_data.files_to_create[i]
         c == create_file(fs, file_info.path, file_info.content)
     IN /\ fs' = c.fs
        /\ io_log' = io_log \o c.log
        /\ console' = console \o c.out
        /\ applied' = Append(applied, Applied("create", i, c.err))
        /\ pc' = IF c.err # "none" THEN "crashed"
                 ELSE IF i < Len(response_data.files_to_create) THEN "creates"
                 ELSE AfterCreates(response_data)
  /\ UNCHANGED << conversation_history, response_data, confirm, walkVars >>

\* r1.py:253-259: the diff table is shown and the user answers
Confirm(answer) ==
  /\ pc = "confirm"
  /\ confirm' = lower(strip(answer))
  /\ IF Affirmative(answer)
       THEN /\ pc' = "edits"
            /\ console' = console
       ELSE /\ pc' = "prompt"
            /\ console' = Append(console, <<"skipped_edits", <<>> >>)
  /\ UNCHANGED << conversation_history, fs, response_data, applied, walkVars, io_log >>

\* r1.py:254: end of input or an interrupt at the confirmation prompt is
\* caught nowhere
ConfirmEOF ==
  /\ pc = "confirm"
  /\ pc' = "crashed"
  /\ UNCHANGED << conversation_history, fs, turnVars, walkVars, io_log, console >>

\* r1.py:256-257: one iteration of the loop over files_to_edit
ApplyEdit ==
  /\ pc = "edits"
  /\ LET j == NextEditIndex
         edit_info == response_data.files_to_edit[j]
         e == apply_diff_edit(fs, edit_info.path, edit_info.original_snippet,
                              edit_info.new_snippet)
     IN /\ fs' = e.fs
        /\ io_log' = io_log \o e.log
        /\ console' = console \o e.out
        /\ applied' = Append(applied, Applied("edit", j, e.err))
        /\ pc' = IF e.err # "none" THEN "crashed"
                 ELSE IF j < Len(response_data.files_to_edit) THEN "edits"
                 ELSE "prompt"
  /\ UNCHANGED << conversation_history, response_data, confirm, walkVars >>

------------------------------------------------------------------------------
(* The worlds the model runs in *)

n_proj == <<"p","r","o","j">>
n_src == <<"s","r","c">>
n_node_modules == <<"n","o","d","e","_","m","o","d","u","l","e","s">>
n_pkg == <<"p","k","g">>
n_git == <<".","g","i","t">>
n_new == <<"n","e","w">>
n_up == <<".",".">>
n_a_py == <<"a",".","p","y">>
n_b_py == <<"b",".","p","y">>
n_s_py == <<"s",".","p","y">>
n_m_py == <<"m",".","p","y">>
n_i_py == <<"i",".","p","y">>
n_n_py == <<"n",".","p","y">>
n_env == <<".","e","n","v">>
n_c_png == <<"c",".","P","N","G">>
n_d_min_js == <<"d",".","m","i","n",".","j","s">>
n_config == <<"c","o","n","f","i","g">>
n_gone == <<"g","o","n","e">>

SeqsUpTo(S, n) == UNION { [1..k -> S] : k \in 0..n }

\* the session before the first line is read
InitSession(f) ==
  /\ conversation_history = << Entry("system", <<>>, SYSTEM_PROMPT) >>
  /\ fs = f
  /\ pc = "prompt"
  /\ response_data = NoResponse
  /\ confirm = <<>>
  /\ applied = <<>>
  /\ WalkIdle
  /\ io_log = <<>>
  /\ console = <<>>

\* a file of the tree, by the condition it is in
Conditions == {"text", "atmax", "over", "binary", "latin1", "eio", "noperm", "broken"}

FileIn(cond) ==
  CASE cond = "text" -> File(<<"A">>, 1, "ok")
    [] cond = "atmax" -> File(<<"A">>, MAX_FILE_SIZE, "ok")
    [] cond = "over" -> File(<<"A">>, MAX_FILE_SIZE + 1, "ok")
    [] cond = "binary" -> File(<<NUL>>, 1, "ok")
    [] cond = "latin1" -> File(<<BAD>>, 1, "ok")
    [] cond = "eio" -> File(<<"A">>, 2048, "eio")
    [] cond = "noperm" -> File(<<"A">>, 1, "noperm")
    [] cond = "broken" -> File(<<>>, 0, "broken")

\* proj/ with eligible, hidden, denylisted and excluded entries
Tree(a, b, s) ==
  [ dirs |->
      ( <<>> :> Listing(<< n_proj >>, <<>>) ) @@
      ( << n_proj >> :> Listing(<< n_node_modules, n_src, n_git >>,
                                << n_a_py, n_env, n_c_png, n_d_min_js, n_b_py >>) ) @@
      ( << n_proj, n_node_modules >> :> Listing(<< n_pkg >>, << n_m_py >>) ) @@
      ( << n_proj, n_node_modules, n_pkg >> :> Listing(<<>>, << n_i_py >>) ) @@
      ( << n_proj, n_src >> :> Listing(<<>>, << n_s_py >>) ) @@
      ( << n_proj, n_git >> :> Listing(<<>>, << n_config >>) ),
    files |->
      ( << n_proj, n_a_py >> :> FileIn(a) ) @@
      ( << n_proj, n_env >> :> FileIn("text") ) @@
      ( << n_proj, n_c_png >> :> FileIn("binary") ) @@
      ( << n_proj, n_d_min_js >> :> FileIn("text") ) @@
      ( << n_proj, n_b_py >> :> FileIn(b) ) @@
      ( << n_proj, n_node_modules, n_m_py >> :> FileIn("text") ) @@
      ( << n_proj, n_node_modules, n_pkg, n_i_py >> :> FileIn("text") ) @@
      ( << n_proj, n_src, n_s_py >> :> FileIn(s) ) @@
      ( << n_proj, n_git, n_config >> :> FileIn("text") ) ]

WalkWorlds == { Tree(a, b, s) : a \in Conditions, b \in Conditions,
                                s \in {"text", "latin1", "eio"} }

AddLine(path) == Line(<<"/","A","d","d"," ">>, path)

WalkLines ==
  { AddLine(p) : p \in { << n_proj >>, << n_proj, n_node_modules >>,
                         << n_proj, n_src, n_up, n_git >>,
                         << n_proj, n_src, n_s_py >>, << n_proj, n_gone >> } }

InitWalk == \E f \in WalkWorlds : InitSession(f)

NextWalk ==
  \/ \E line \in WalkLines : AddCommand(line)
  \/ WalkDir
  \/ WalkReport

SpecWalk == InitWalk /\ [][NextWalk]_vars

------------------------------------------------------------------------------
(* The session: a small project, hand-picked lines and proposals *)

p_a == << n_proj, n_a_py >>
p_s == << n_proj, n_src, n_s_py >>
p_src == << n_proj, n_src >>
p_new == << n_proj, n_new, n_n_py >>
p_gone == << n_proj, n_gone >>
p_under == << n_proj, n_a_py, n_gone >>

\* proj/a.py holds "ABA"; proj/src/s.py is read-only
SessionWorld ==
  [ dirs |->
      ( <<>> :> Listing(<< n_proj >>, <<>>) ) @@
      ( << n_proj >> :> Listing(<< n_src >>, << n_a_py >>) ) @@
      ( p_src :> Listing(<<>>, << n_s_py >>) ),
    files |->
      ( p_a :> File(<<"A","B","A">>, 3, "ok") ) @@
      ( p_s :> File(<<"B">>, 1, "ro") ) ]

ChatLine == Line(<<" ","h","i"," ">>, <<>>)

SessionLines ==
  { Line(<<" ">>, <<>>), Line(<<"E","x","i","t"," ">>, <<>>), Line(<<"q","u","i","t">>, <<>>),
    ChatLine, Line(<<"/","a","d","d">>, <<>>),
    AddLine(<< n_proj >>), AddLine(p_a), AddLine(p_gone),
    Line(<<" ","/","a","d","d"," "," ">>, << n_proj, n_up, n_proj, n_a_py >>) }

c_new == FileToCreate(p_new, <<"A">>)
c_dir == FileToCreate(p_src, <<"A">>)
c_over == FileToCreate(p_a, <<"B">>)
e_ok == FileToEdit(p_a, <<"A">>, <<"X">>)
e_nosnip == FileToEdit(p_a, <<"Z">>, <<"X">>)
e_gone == FileToEdit(p_gone, <<"A">>, <<"X">>)
e_dir == FileToEdit(p_src, <<"A">>, <<"X">>)
e_ro == FileToEdit(p_s, <<"B">>, <<"A">>)
e_nodir == FileToEdit(p_new, <<"A">>, <<"X">>)
e_under == FileToEdit(p_under, <<"A">>, <<"X">>)

REPLY == <<"o","k">>

SessionPayloads ==
  { Payload(TRUE, REPLY, <<>>, <<>>),
    Payload(TRUE, REPLY, << c_new >>, <<>>),
    Payload(TRUE, REPLY, << c_over, c_new >>, << e_ok >>),
    Payload(TRUE, REPLY, << c_dir, c_new >>, << e_ok >>),
    Payload(TRUE, REPLY, <<>>, << e_ok, e_ok >>),
    Payload(TRUE, REPLY, <<>>, << e_gone, e_ok >>),
    Payload(TRUE, REPLY, <<>>, << e_nosnip, e_ok >>),
    Payload(TRUE, REPLY, <<>>, << e_dir, e_ok >>),
    Payload(TRUE, REPLY, <<>>, << e_ro, e_ok >>),
    Payload(TRUE, REPLY, <<>>, << e_nodir, e_under >>),
    Payload(FALSE, <<>>, << c_new >>, << e_ok >>) }

Answers == { <<"y">>, <<" ","Y"," ">>, <<"n">>, <<"y","e","s">>, <<>> }

Init == InitSession(SessionWorld)

Next ==
  \/ PromptEOF
  \/ \E line \in SessionLines : EmptyInput(line)
  \/ \E line \in SessionLines : ExitCommand(line)
  \/ \E line \in SessionLines : AddCommand(line)
  \/ \E line \in SessionLines, payload \in SessionPayloads : Turn(line, payload)
  \/ WalkDir
  \/ WalkReport
  \/ ApplyCreate
  \/ \E answer \in Answers : Confirm(answer)
  \/ ConfirmEOF
  \/ ApplyEdit

Spec == Init /\ [][Next]_vars

------------------------------------------------------------------------------
(* One edit of one file, over every small content and snippet *)

ContentChars == {"A", "B"}

Contents == SeqsUpTo(ContentChars, MaxLen) \cup { <<"A","-","B","-","A">> }

Snippets == SeqsUpTo(ContentChars, MaxSnippet)

NewSnippets == SeqsUpTo({"X"}, MaxSnippet) \cup { <<"A">> }

EditWorld(content) ==
  [ dirs |->
      ( <<>> :> Listing(<< n_proj >>, <<>>) ) @@
      ( << n_proj >> :> Listing(<<>>, << n_a_py >>) ),
    files |-> ( p_a :> File(content, Len(content), "ok") ) ]

EditPayloads ==
  { Payload(TRUE, REPLY, <<>>, << FileToEdit(p_a, o, n) >>) :
      o \in Snippets, n \in NewSnippets }

InitEdit == \E content \in Contents : InitSession(EditWorld(content))

\* a session of one turn
NextEditRun ==
  \/ \E payload \in EditPayloads : Len(conversation_history) = 1 /\ Turn(ChatLine, payload)
  \/ \E answer \in Answers : Confirm(answer)
  \/ ApplyEdit

SpecEdit == InitEdit /\ [][NextEditRun]_vars

------------------------------------------------------------------------------
(* A tree with more eligible files than MAX_FILES_TO_PROCESS *)

n_big == <<"b","i","g">>
n_sub == <<"s","u","b">>

Digit == <<"0","1","2","3","4","5","6","7","8","9">>

RECURSIVE Digits(_)
Digits(i) == IF i < 10 THEN << Digit[i + 1] >>
             ELSE Append(Digits(i \div 10), Digit[(i % 10) + 1])

\* the name of the i-th file of a directory: f<i>.py
NumberedFile(i) == <<"f">> \o Digits(i) \o <<".","p","y">>

\* big/ with n0 eligible files and big/sub/ with n1, each directory listing
\* a hidden file after them
BigTree(n0, n1) ==
  [ dirs |->
      ( <<>> :> Listing(<< n_big >>, <<>>) ) @@
      ( << n_big >> :> Listing(<< n_sub >>,
                               Append([i \in 1..n0 |-> NumberedFile(i)], n_env)) ) @@
      ( << n_big, n_sub >> :> Listing(<<>>,
                               Append([i \in 1..n1 |-> NumberedFile(i)], n_env)) ),
    files |->
      [ p \in { << n_big, NumberedFile(i) >> : i \in 1..n0 }
              \cup { << n_big, n_sub, NumberedFile(i) >> : i \in 1..n1 }
              \cup { << n_big, n_env >>, << n_big, n_sub, n_env >> }
          |-> FileIn("text") ] ]

\* trees around the ceiling, and small trees that stay below it
BigWorlds ==
  { BigTree(MAX_FILES_TO_PROCESS + CeilExtra, 1),
    BigTree(MAX_FILES_TO_PROCESS, CeilExtra),
    BigTree(MAX_FILES_TO_PROCESS - 1, CeilExtra + 1),
    BigTree(MAX_FILES_TO_PROCESS - 1, 1),
    BigTree(MAX_FILES_TO_PROCESS - 1, 0) }
  \cup { BigTree(n0, n1) : n0 \in 0..MaxLen, n1 \in 0..MaxSnippet }

CeilLines == { AddLine(<< n_big >>), AddLine(<< n_big, n_sub >>) }

\* the same create twice in one proposal: onto the existing file, into a
\* missing directory, into the existing one, onto a directory and below a file
CreatePaths == { p_a, p_new, p_gone, << n_proj >>, p_under }

CreatePayloads ==
  { Payload(TRUE, REPLY, << FileToCreate(p, c), FileToCreate(p, c) >>, <<>>) :
      p \in CreatePaths, c \in Snippets }

NextCreateRun ==
  \/ \E payload \in CreatePayloads : Turn(ChatLine, payload)
  \/ ApplyCreate

SpecCreate == InitEdit /\ [][NextCreateRun]_vars

InitCeil == \E f \in BigWorlds : InitSession(f)

NextCeil ==
  \/ \E line \in CeilLines : AddCommand(line)
  \/ WalkDir
  \/ WalkReport

SpecCeil == InitCeil /\ [][NextCeil]_vars

------------------------------------------------------------------------------
(* Claims *)

Last(s) == s[Len(s)]

IsPrefix(s, t) == Len(s) <= Len(t) /\ SubSeq(t, 1, Len(s)) = s

\* the edit that the loop over files_to_edit takes next
PendingEdit == response_data.files_to_edit[NextEditIndex]

\* the calls of the step that write, create or truncate something
WritesOf(log) == { k \in DOMAIN log : log[k][1] \in {"mkdir", "open_w", "write"} }

\* C1: an edit of an existing, readable file whose non-empty original_snippet
\* does not occur in it ends in the "no changes made" failure report and not
\* in the success report, makes no write call, and leaves the filesystem as
\* it was.
C1_SnippetNotFoundFails ==
  [][ ( /\ pc = "edits"
        /\ ReadError(fs, PendingEdit.path) = "none"
        /\ PendingEdit.original_snippet # <<>>
        /\ Occurrences(fs.files[PendingEdit.path].content,
                       PendingEdit.original_snippet) = {} )
      => ( /\ Len(console') = Len(console) + 1
           /\ Last(console') = <<"no_changes_made", PendingEdit.path>>
           /\ WritesOf(io_log') = WritesOf(io_log)
           /\ fs' = fs ) ]_vars

\* C2: an edit is only ever applied in a turn whose confirmation was answered
\* "y"; while the answer is awaited every create of the proposal has been
\* applied and no edit has; and the filesystem changes only in the loop over
\* the creates or, after a "y", in the loop over the edits.
C2_EditsNeedConfirmation ==
  /\ [] ( /\ (\E k \in DOMAIN applied : applied[k].kind = "edit") => confirm = <<"y">>
          /\ pc = "edits" => confirm = <<"y">>
          /\ pc = "confirm" =>
               /\ NextCreateIndex = Len(response_data.files_to_create) + 1
               /\ NextEditIndex = 1
               /\ confirm = <<>> )
  /\ [][ /\ fs' # fs => (pc = "creates" \/ (pc = "edits" /\ confirm = <<"y">>))
         /\ (pc = "confirm" /\ confirm' # <<"y">>) => pc' \in {"prompt", "crashed"}
         /\ (pc = "creates" /\ pc' = "creates") => confirm' = <<>> ]_vars

\* C2 witness: a turn with creates and an edit, the edit applied after "y"
C2_Witness ==
  /\ pc = "prompt"
  /\ confirm = <<"y">>
  /\ \E k \in DOMAIN applied : applied[k].kind = "create" /\ applied[k].err = "none"
  /\ \E k \in DOMAIN applied : applied[k].kind = "edit" /\ applied[k].err = "none"
  /\ fs.files[p_a].content = <<"B">>
  /\ Last(console) = <<"applied_diff_edit", p_a>>

\* the loops over the proposal's instructions are not running
BatchOver == pc \in {"prompt", "walk", "finished", "crashed"}

\* C3: the instructions of a batch are taken in list order, and whatever
\* fails, every create of the proposal and, once the edits are confirmed,
\* every edit has been attempted when the batch is over.
C3_BatchContinuesAfterFailure ==
  /\ \A k \in DOMAIN applied :
        applied[k].i = Cardinality({ m \in 1..k : applied[m].kind = applied[k].kind })
  /\ BatchOver =>
       /\ NextCreateIndex = Len(response_data.files_to_create) + 1
       /\ confirm = <<"y">> => NextEditIndex = Len(response_data.files_to_edit) + 1

C5_NoFilesystemErrorEndsSession ==
  /\ \A k \in DOMAIN applied : applied[k].err = "none"
  /\ pc = "crashed" => (confirm = <<>> /\ NextEditIndex = 1)

\* the calls that size, open or read a file
FileAccesses(log) == { k \in DOMAIN log : log[k][1] \in {"getsize", "open_rb", "read"} }

\* what the last report of a directory ingestion listed as added
ReportedAdded == { k \in DOMAIN console : console[k][1] = "added_files" }

\* the file the inner loop takes passes every test before the read
PassesFilters(f, file, full_path) ==
  /\ ~ExcludedName(file)
  /\ ~ExcludedExtension(file)
  /\ GetsizeError(f, full_path) = "none"
  /\ ~ExceedsSizeLimit(f.files[full_path].size)
  /\ ~is_binary_file(f, full_path)

\* the files of f under directory d that pass every test and read without
\* error
EligibleFiles(f, d) ==
  { p \in DOMAIN f.files :
      IsPrefix(d, p) /\ PassesFilters(f, basename(p), p) /\ ReadError(f, p) = "none" }

\* the directory the last report names
ReportedFolder ==
  console[CHOOSE k \in DOMAIN console : console[k][1] = "added_folder"][2]

\* the paths a walk has listed as skipped, and the paths of its file calls
SkippedPaths == { skipped_files[k].path : k \in DOMAIN skipped_files }

AccessedPaths == { io_log[k][2] : k \in FileAccesses(io_log) }

\* the names that follow name in the listing of its directory
ListedAfter(f, p) ==
  LET names == f.dirs[parent(p)].files
      at == CHOOSE i \in DOMAIN names : names[i] = basename(p)
  IN { join(parent(p), names[j]) : j \in (at + 1)..Len(names) }

\* C6: in one directory ingestion the count of accepted files never passes
\* MAX_FILES_TO_PROCESS (1000) and one entry is appended per accepted file;
\* the report of a tree with more eligible files than that lists exactly
\* 1000 and of a smaller tree all of them; and once the count is at the
\* ceiling no further file is sized, opened, read, skipped or appended: the
\* files listed after the 1000th accepted one are untouched, and no later
\* step touches any.
C6_CeilingHolds ==
  /\ [] ( /\ total_files_processed <= 1000
          /\ Len(added_files) = total_files_processed
          /\ \A k \in ReportedAdded :
               LET eligible == Cardinality(EligibleFiles(fs, ReportedFolder))
               IN Len(console[k][2]) = IF eligible > 1000 THEN 1000 ELSE eligible
          /\ (pc = "walk" /\ total_files_processed = 1000) =>
               /\ Last(added_files) = join(root, basename(Last(added_files)))
               /\ \A p \in ListedAfter(fs, Last(added_files)) :
                    /\ p \notin SkippedPaths
                    /\ p \notin AccessedPaths
                    /\ \A k \in DOMAIN conversation_history :
                         conversation_history[k].path # p )
  /\ [][ pc' = "walk" =>
           Len(conversation_history') - Len(conversation_history)
             = total_files_processed' - total_files_processed ]_vars
  /\ [][ (pc = "walk" /\ total_files_processed >= 1000)
           => /\ conversation_history' = conversation_history
              /\ FileAccesses(io_log') = FileAccesses(io_log)
              /\ total_files_processed' \in {total_files_processed, 0}
              /\ skipped_files' \in {skipped_files, <<>>}
              /\ added_files' \in {added_files, <<>>} ]_vars

\* C6 witness: the report of a tree of 1200 eligible files lists 1000
C6_Witness ==
  /\ pc = "prompt"
  /\ \E k \in ReportedAdded : Len(console[k][2]) = 1000
  /\ Cardinality(EligibleFiles(fs, ReportedFolder)) = 1200
  /\ Len(conversation_history) = 1001

\* a directory of p, other than the last segment, is named in the denylist
UnderDenylisted(p, from) ==
  \E i \in (from + 1)..(Len(p) - 1) : p[i] \in EXCLUDED_FILES

NextFiles ==
  LET names == fs.dirs[Head(walk_stack)].files
  IN { join(Head(walk_stack), names[i]) : i \in DOMAIN names }

\* C8: when the read of a file that passed the filters fails (an OSError or a
\* decoding error), the walk goes on: the step over the file's directory ends
\* inside the walk, every file of the directory is then listed as added or
\* as skipped, and the file whose read failed is listed as skipped, not as
\* added, with nothing appended for it.
C8_ReadErrorSkipsFile ==
  [][ ( /\ pc = "walk"
        /\ walk_stack # <<>>
        /\ total_files_processed + Cardinality(NextFiles) < 1000 )
      => \A p \in NextFiles :
           ( PassesFilters(fs, basename(p), p) /\ ReadError(fs, p) # "none" )
           => /\ pc' = "walk"
              /\ \A q \in NextFiles :
                   \/ \E k \in DOMAIN added_files' : added_files'[k] = q
                   \/ \E k \in DOMAIN skipped_files' : skipped_files'[k].path = q
              /\ \E k \in DOMAIN skipped_files' : skipped_files'[k].path = p
              /\ \A k \in DOMAIN added_files' : added_files'[k] # p
              /\ \A k \in DOMAIN conversation_history' :
                   k > Len(conversation_history) => conversation_history'[k].path # p ]_vars

\* C9: what a step of a directory ingestion adds to added_files and what it
\* appends to the history match one to one: the k-th new path has the k-th
\* new entry, a system entry with that path and the file's content; nothing
\* else is appended, and no path is both added and skipped.
C9_AddedIffAppended ==
  [][ (pc = "walk" /\ pc' = "walk")
      => LET n == Len(added_files)
             h == Len(conversation_history)
         IN /\ IsPrefix(added_files, added_files')
            /\ IsPrefix(conversation_history, conversation_history')
            /\ Len(conversation_history') - h = Len(added_files') - n
            /\ \A k \in 1..(Len(added_files') - n) :
                 /\ h + k <= Len(conversation_history')
                 /\ conversation_history'[h + k] =
                      FileEntry(added_files'[n + k], fs.files[added_files'[n + k]].content)
            /\ \A i \in DOMAIN added_files', j \in DOMAIN skipped_files' :
                 added_files'[i] # skipped_files'[j].path ]_vars

\* C10: the history only grows at its end: each step leaves every entry it
\* held in place and unchanged, and its first entry is the system prompt; so
\* an entry made from a file stays as it was when the file is written later.
C10_HistoryAppendOnly ==
  /\ [] ( /\ conversation_history # <<>>
          /\ Head(conversation_history) = Entry("system", <<>>, SYSTEM_PROMPT) )
  /\ [][ IsPrefix(conversation_history, conversation_history') ]_vars

\* C10 witness: proj/a.py was added and edited afterwards; the entry holds
\* the content read at the time
C10_Witness ==
  /\ pc = "prompt"
  /\ \E k \in DOMAIN conversation_history :
       /\ conversation_history[k] = FileEntry(p_a, <<"A","B","A">>)
       /\ \E m \in DOMAIN conversation_history :
            m > k /\ conversation_history[m].role = "assistant"
  /\ fs.files[p_a].content = <<"X","B","A">>

------------------------------------------------------------------------------
(* Claims C11..C18 *)

\* the turn in progress was reported as a schema error
SchemaErrorReported(out) == \E k \in DOMAIN out : out[k][1] = "schema_error"

\* C11: when the payload of a turn fails validation against
\* AssistantResponse (no assistant_reply), the turn is reported as a schema
\* error, the response main receives carries no create and no edit
\* instruction, main is back at the prompt with nothing applied, and the step
\* changes no file and makes no filesystem call.
C11_SchemaErrorAppliesNothing ==
  /\ [] ( SchemaErrorReported(console) =>
            /\ response_data.files_to_create = <<>>
            /\ response_data.files_to_edit = <<>>
            /\ applied = <<>>
            /\ pc = "prompt" )
  /\ [][ \A line \in SessionLines, payload \in SessionPayloads :
           (~payload.has_reply /\ Turn(line, payload))
             => /\ SchemaErrorReported(console')
                /\ fs' = fs
                /\ io_log' = <<>> ]_vars
  /\ [][ SchemaErrorReported(console') => fs' = fs /\ io_log' = <<>> ]_vars

\* C11 witness: a payload without assistant_reply, which carried a create and
\* an edit, has been reported; its user turn is the last entry of the history
C11_Witness ==
  /\ SchemaErrorReported(console)
  /\ pc = "prompt"
  /\ Last(conversation_history).role = "user"
  /\ \E payload \in SessionPayloads :
       /\ ~payload.has_reply
       /\ payload.files_to_create # <<>>
       /\ payload.files_to_edit # <<>>

\* nothing exists at path p
Absent(f, p) == ~isfile(f, p) /\ ~isdir(f, p)

ReadsOf(log, p) == { k \in DOMAIN log : log[k][1] \in {"open_rb", "read"} /\ log[k][2] = p }

\* the entries a step appended to the history
NewEntries == { k \in DOMAIN conversation_history' : k > Len(conversation_history) }

\* C14: in a step of a directory ingestion below the file-count ceiling, a
\* file that passes the name and extension tests and is one byte over
\* MAX_FILE_SIZE is never opened, read, listed as added or appended, and when
\* the step ends inside the walk it is listed as skipped with the note
\* "exceeds size limit"; a file of exactly MAX_FILE_SIZE that is eligible
\* otherwise is, when the step ends inside the walk, listed as added and not
\* as skipped, and one entry with its path and content is appended.
C14_SizeCeilingBoundary ==
  [][ ( /\ pc = "walk"
        /\ walk_stack # <<>>
        /\ total_files_processed + Cardinality(NextFiles) < 1000 )
      => \A p \in NextFiles :
           ( /\ ~ExcludedName(basename(p))
             /\ ~ExcludedExtension(basename(p))
             /\ GetsizeError(fs, p) = "none" )
           => /\ fs.files[p].size = MAX_FILE_SIZE + 1
                   => /\ ReadsOf(io_log', p) = {}
                      /\ \A k \in DOMAIN added_files' : added_files'[k] # p
                      /\ \A k \in NewEntries : conversation_history'[k].path # p
                      /\ pc' = "walk" =>
                           \E k \in DOMAIN skipped_files' :
                             skipped_files'[k] = Skipped(p, "exceeds size limit")
              /\ ( /\ fs.files[p].size = MAX_FILE_SIZE
                   /\ ~is_binary_file(fs, p)
                   /\ ReadError(fs, p) = "none"
                   /\ pc' = "walk" )
                   => /\ \E k \in DOMAIN added_files' : added_files'[k] = p
                      /\ \A k \in DOMAIN skipped_files' : skipped_files'[k].path # p
                      /\ Cardinality({ k \in NewEntries :
                           conversation_history'[k] = FileEntry(p, fs.files[p].content) }) = 1 ]_vars

\* C14 witness: proj has been walked where a.py is of exactly the ceiling
\* and b.py one byte over it
C14_Witness ==
  /\ pc = "walk"
  /\ root = << n_proj >>
  /\ fs.files[<< n_proj, n_a_py >>].size = MAX_FILE_SIZE
  /\ fs.files[<< n_proj, n_b_py >>].size = MAX_FILE_SIZE + 1
  /\ \E k \in DOMAIN added_files : added_files[k] = << n_proj, n_a_py >>
  /\ \E k \in DOMAIN skipped_files :
       skipped_files[k] = Skipped(<< n_proj, n_b_py >>, "exceeds size limit")

\* the create that the loop over files_to_create takes next
PendingCreate == response_data.files_to_create[NextCreateIndex]

\* C15: a create that succeeds leaves exactly content in the file at path,
\* whatever it held before, and changes no other file; applying the same
\* instruction again to the result changes nothing, and when the proposal
\* holds the same create twice in a row the second application leaves the
\* filesystem as the first left it.  A create that raises changes nothing.
C15_CreateTwiceIsCreateOnce ==
  [][ pc = "creates"
      => LET p == PendingCreate.path
             content == PendingCreate.content
             again == create_file(fs', p, content)
         IN /\ Last(applied').err = "none"
                 => /\ isfile(fs', p)
                    /\ fs'.files[p].content = content
                    /\ \A q \in DOMAIN fs.files \ {p} :
                         isfile(fs', q) /\ fs'.files[q] = fs.files[q]
                    /\ DOMAIN fs'.files = DOMAIN fs.files \cup {p}
                    /\ again.err = "none"
                    /\ again.fs = fs'
            /\ Last(applied').err # "none" => fs' = fs
            /\ ( /\ NextCreateIndex > 1
                 /\ response_data.files_to_create[NextCreateIndex - 1] = PendingCreate )
                 => fs' = fs ]_vars

\* C15 witness: "B" has been created twice over proj/a.py, which held
\* something else, and the file holds "B"
C15_Witness ==
  /\ pc = "prompt"
  /\ response_data.files_to_create = << FileToCreate(p_a, <<"B">>), FileToCreate(p_a, <<"B">>) >>
  /\ applied = << Applied("create", 1, "none"), Applied("create", 2, "none") >>
  /\ fs.files[p_a].content = <<"B">>
  /\ \E k \in DOMAIN io_log : io_log[k] = <<"write", p_a>>

\* name ends with suffix
endswith(name, suffix) ==
  /\ Len(suffix) <= Len(name)
  /\ SubSeq(name, Len(name) - Len(suffix) + 1, Len(name)) = suffix

\* name ends, whatever its case, with an entry of the extension denylist
EndsWithExcludedExtension(name) ==
  \E e \in EXCLUDED_EXTENSIONS : endswith(lower(name), e)

\* C16: in a step of a directory ingestion, a file whose name ends,
\* case-insensitively, with an entry of EXCLUDED_EXTENSIONS (".png" as well
\* as the compound ".min.js") is not listed as added, has no entry appended,
\* and is listed as skipped when the step ends inside the walk.
C16_ExcludedExtensionsSkipped ==
  [][ (pc = "walk" /\ walk_stack # <<>>)
      => \A p \in NextFiles :
           EndsWithExcludedExtension(basename(p))
           => /\ \A k \in DOMAIN added_files' : added_files'[k] # p
              /\ \A k \in NewEntries : conversation_history'[k].path # p
              /\ pc' = "walk" =>
                   \E k \in DOMAIN skipped_files' : skipped_files'[k].path = p ]_vars

AddReports == {"added_file", "could_not_add_file", "could_not_add_path",
               "added_folder", "added_files", "skipped_files", "reached_limit"}

\* a step of main that handles an /add command: the command is read, or the
\* directory it names is being walked or reported
AddStep == (\E line \in SessionLines : AddCommand(line)) \/ pc = "walk"

\* C18: a step that handles an /add command, whatever its path names, leaves
\* the filesystem, the response of the last turn, its confirmation and its
\* applied instructions as they were, makes no mkdir, open-for-writing or
\* write call, prints nothing but reports of the ingestion, and changes the
\* history only by appending entries of role "system".
C18_AddOnlyAppendsSystemEntries ==
  [][ AddStep
      => /\ fs' = fs
         /\ response_data' = response_data
         /\ confirm' = confirm
         /\ applied' = applied
         /\ WritesOf(io_log') = {}
         /\ \A k \in DOMAIN console' : console'[k][1] \in AddReports
         /\ IsPrefix(conversation_history, conversation_history')
         /\ \A k \in NewEntries : conversation_history'[k].role = "system"
         /\ pc' \in {"prompt", "walk"} ]_vars

\* C18 witness: after a turn whose edit was applied, proj has been ingested:
\* the report is on the console and the entries of its files follow the
\* assistant's
C18_Witness ==
  /\ pc = "prompt"
  /\ \E k \in DOMAIN console : console[k][1] = "added_folder"
  /\ \E k \in DOMAIN conversation_history :
       /\ conversation_history[k].role = "assistant"
       /\ k < Len(conversation_history)
       /\ \A m \in (k + 1)..Len(conversation_history) :
            /\ conversation_history[m].role = "system"
            /\ conversation_history[m].path # <<>>
  /\ applied # <<>>

==============================================================================
